---- MODULE Spec2Model ----
(***************************************************************************)
(* A model of the three snippets of the repository:                        *)
(*   demo.py   fibonacci(n), naive recursion, and its __main__ block       *)
(*   demo1.py  reverse_string(s), a print and the inline unit test         *)
(*   sampl.py  reverse_string(s) and its __main__ block                    *)
(* fibonacci is modelled operationally: every caller owns a call stack of  *)
(* frames and each step executes one branch of the body (lines 4-9) of the *)
(* frame on top.  reverse_string is the extended slice s[::-1], computed   *)
(* by the slice's index arithmetic.  Strings are sequences of characters.  *)
(***************************************************************************)
EXTENDS Integers, Sequences, FiniteSets, TLC

\* ------------------------------------------------------------- bounds
\* fibonacci is called with n in -NegN..MaxN by a single caller
MaxN == 10
NegN == 3
\* length of the strings drawn over Alphabet for reverse_string
MaxLen == 4
\* concurrent callers, and the largest n a concurrent caller passes
NumCallers == 2
ConcN == 3

Alphabet == {"a", "b", "c", "d"}
Callers == 1..NumCallers

\* ------------------------------------------------ literals of the code
\* demo.py line 12
MainN == 10
\* demo1.py lines 6, 12-15
Hello == <<"h", "e", "l", "l", "o">>
Olleh == <<"o", "l", "l", "e", "h">>
Empty == <<>>
A == <<"a">>
Abcd == <<"a", "b", "c", "d">>
Dcba == <<"d", "c", "b", "a">>
\* sampl.py line 8
HelloWorld == <<"H", "e", "l", "l", "o", ",", " ", "W", "o", "r", "l", "d", "!">>

VARIABLES
  arg,              \* arg[p]: caller p's argument variable ([fn, n] or [fn, s])
  pc,               \* pc[p]: "off", "call" (about to call), "running", "done"
  stack,            \* stack[p]: the fibonacci frames of caller p, top last
  ret,              \* ret[p]: the integer the last returning frame of p returned
  result,           \* result[p]: <<>> until the top-level call returned <<v>>
  calls,            \* calls[p]: fibonacci frames entered so far by p's call
  script,           \* the file run as a script, "none" when no script runs
  line,             \* the script's next statement
  stdout,           \* what the script printed
  raised,           \* the exception that ended the script, "" when none
  input_string,     \* sampl.py line 8, <<>> while unbound
  reversed_string   \* sampl.py line 9, <<>> while unbound

vars == <<arg, pc, stack, ret, result, calls, script, line, stdout, raised,
          input_string, reversed_string>>

callerVars == <<arg, pc, stack, ret, result, calls>>
scriptVars == <<script, line, stdout, raised, input_string, reversed_string>>

\* ------------------------------------------------------ reverse_string
\* s[::step] with start and stop omitted: for a negative step the slice
\* starts at the last position and runs down to the first, for a positive
\* step it starts at the first and runs up to the last (positions 0-based
\* in the code, 1-based here).
SliceCount(n, step) ==
  IF step < 0 THEN (n + (-step) - 1) \div (-step) ELSE (n + step - 1) \div step

SliceAll(s, step) ==
  LET n     == Len(s)
      first == IF step < 0 THEN n - 1 ELSE 0
  IN  [k \in 1..SliceCount(n, step) |-> s[first + (k - 1) * step + 1]]

\* s[:0:-1], the slice stopped before the first character
demo1_reverse_string_stop(s) == SliceAll(SubSeq(s, 2, Len(s)), -1)

\* s[::1], the slice with the sign of the step lost
demo1_reverse_string_forward(s) == SliceAll(s, 1)

demo1_reverse_string(s) == SliceAll(s, -1)

\* s[::-2], every second character only
sampl_reverse_string_step2(s) == SliceAll(s, -2)

\* s[-2::-1], the slice started one position early
sampl_reverse_string_early(s) == SliceAll(SubSeq(s, 1, Len(s) - 1), -1)

sampl_reverse_string(s) == SliceAll(s, -1)

reverse_string(fn, s) ==
  IF fn = "demo1.reverse_string" THEN demo1_reverse_string(s)
                                 ELSE sampl_reverse_string(s)

ReverseFns == {"demo1.reverse_string", "sampl.reverse_string"}

\* ----------------------------------------------------------- fibonacci
\* the first guard written n < 0: fibonacci(0) recurses
BranchStrictGuard(n) ==
  IF n < 0 THEN "zero" ELSE IF n = 1 THEN "one" ELSE "recurse"

\* the elif n == 1 branch left out: fibonacci(1) recurses
BranchNoOne(n) ==
  IF n <= 0 THEN "zero" ELSE "recurse"

\* the guards written n < 0, n == 1, n > 1: no branch is taken for n = 0
BranchGap(n) ==
  IF n < 0 THEN "zero" ELSE IF n = 1 THEN "one"
  ELSE IF n > 1 THEN "recurse" ELSE "none"

\* The branch the body takes for n (lines 4, 6, 8).
Branch(n) ==
  IF n <= 0 THEN "zero" ELSE IF n = 1 THEN "one" ELSE "recurse"

Top(p) == stack[p][Len(stack[p])]
Pop(p) == SubSeq(stack[p], 1, Len(stack[p]) - 1)
Frame(n) == [n |-> n, at |-> "body", a |-> 0]

\* A frame of p returns v: the frame is popped and v handed to whoever
\* called it, the frame below or, for the last frame, the caller.
Return(p, v) ==
  /\ stack' = [stack EXCEPT ![p] = Pop(p)]
  /\ ret' = [ret EXCEPT ![p] = v]
  /\ IF Len(stack[p]) = 1
       THEN /\ result' = [result EXCEPT ![p] = <<v>>]
            /\ pc' = [pc EXCEPT ![p] = "done"]
       ELSE UNCHANGED <<result, pc>>
  /\ UNCHANGED <<arg, calls>>

\* The caller calls fibonacci(n).
CallFibonacci(p) ==
  /\ pc[p] = "call"
  /\ arg[p].fn = "fibonacci"
  /\ stack' = [stack EXCEPT ![p] = <<Frame(arg[p].n)>>]
  /\ calls' = [calls EXCEPT ![p] = 1]
  /\ pc' = [pc EXCEPT ![p] = "running"]
  /\ UNCHANGED <<arg, ret, result>>
  /\ UNCHANGED scriptVars

\* lines 4-5: if n <= 0: return 0
ReturnZero(p) ==
  /\ pc[p] = "running"
  /\ Top(p).at = "body"
  /\ Branch(Top(p).n) = "zero"
  /\ Return(p, 0)
  /\ UNCHANGED scriptVars

\* lines 6-7: elif n == 1: return 1
ReturnOne(p) ==
  /\ pc[p] = "running"
  /\ Top(p).at = "body"
  /\ Branch(Top(p).n) = "one"
  /\ Return(p, 1)
  /\ UNCHANGED scriptVars

\* line 9, left operand: call fibonacci(n - 1)
CallFirst(p) ==
  /\ pc[p] = "running"
  /\ Top(p).at = "body"
  /\ Branch(Top(p).n) = "recurse"
  /\ stack' = [stack EXCEPT ![p] =
                 Append([stack[p] EXCEPT ![Len(stack[p])].at = "first"],
                        Frame(Top(p).n - 1))]
  /\ calls' = [calls EXCEPT ![p] = @ + 1]
  /\ UNCHANGED <<arg, pc, ret, result>>
  /\ UNCHANGED scriptVars

\* line 9 written fibonacci(n - 1) + fibonacci(n - 1)
CallSecondSameArgument(p) ==
  /\ pc[p] = "running"
  /\ Top(p).at = "first"
  /\ stack' = [stack EXCEPT ![p] =
                 Append([stack[p] EXCEPT ![Len(stack[p])].at = "second",
                                         ![Len(stack[p])].a = ret[p]],
                        Frame(Top(p).n - 1))]
  /\ calls' = [calls EXCEPT ![p] = @ + 1]
  /\ UNCHANGED <<arg, pc, ret, result>>
  /\ UNCHANGED scriptVars

\* the value of fibonacci(n - 1) kept in one module-level variable that
\* every caller shares (here the first caller's) instead of in the frame
CallSecondSharedValue(p) ==
  /\ pc[p] = "running"
  /\ Top(p).at = "first"
  /\ stack' = [stack EXCEPT ![p] =
                 Append([stack[p] EXCEPT ![Len(stack[p])].at = "second",
                                         ![Len(stack[p])].a = ret[1]],
                        Frame(Top(p).n - 2))]
  /\ calls' = [calls EXCEPT ![p] = @ + 1]
  /\ UNCHANGED <<arg, pc, ret, result>>
  /\ UNCHANGED scriptVars

\* line 9, right operand: fibonacci(n - 1) has returned, its value is kept
\* and fibonacci(n - 2) is called
CallSecond(p) ==
  /\ pc[p] = "running"
  /\ Top(p).at = "first"
  /\ stack' = [stack EXCEPT ![p] =
                 Append([stack[p] EXCEPT ![Len(stack[p])].at = "second",
                                         ![Len(stack[p])].a = ret[p]],
                        Frame(Top(p).n - 2))]
  /\ calls' = [calls EXCEPT ![p] = @ + 1]
  /\ UNCHANGED <<arg, pc, ret, result>>
  /\ UNCHANGED scriptVars

\* line 9: both operands are known, return their sum
ReturnSum(p) ==
  /\ pc[p] = "running"
  /\ Top(p).at = "second"
  /\ Return(p, Top(p).a + ret[p])
  /\ UNCHANGED scriptVars

\* the reversal done in place, as s.reverse() does on a list: the caller's
\* sequence is overwritten
CallReverseStringInPlace(p) ==
  /\ pc[p] = "call"
  /\ arg[p].fn \in ReverseFns
  /\ arg' = [arg EXCEPT ![p].s = reverse_string(arg[p].fn, arg[p].s)]
  /\ result' = [result EXCEPT ![p] = <<reverse_string(arg[p].fn, arg[p].s)>>]
  /\ pc' = [pc EXCEPT ![p] = "done"]
  /\ UNCHANGED <<stack, ret, calls>>
  /\ UNCHANGED scriptVars

\* The caller calls reverse_string(s): one slice, the result is a new value
\* and the argument is left as it is.
CallReverseString(p) ==
  /\ pc[p] = "call"
  /\ arg[p].fn \in ReverseFns
  /\ result' = [result EXCEPT ![p] = <<reverse_string(arg[p].fn, arg[p].s)>>]
  /\ pc' = [pc EXCEPT ![p] = "done"]
  /\ UNCHANGED <<arg, stack, ret, calls>>
  /\ UNCHANGED scriptVars

Step(p) ==
  \/ CallFibonacci(p)
  \/ ReturnZero(p)
  \/ ReturnOne(p)
  \/ CallFirst(p)
  \/ CallSecond(p)
  \/ ReturnSum(p)
  \/ CallReverseString(p)

\* ------------------------------------------------------------- scripts
\* demo.py line 12: n = 10, the argument of the call of line 13
DemoAssign ==
  /\ script = "demo.py"
  /\ line = 12
  /\ arg' = [arg EXCEPT ![1] = [fn |-> "fibonacci", n |-> MainN]]
  /\ pc' = [pc EXCEPT ![1] = "call"]
  /\ line' = 13
  /\ UNCHANGED <<stack, ret, result, calls>>
  /\ UNCHANGED <<script, stdout, raised, input_string, reversed_string>>

\* demo.py line 13: print(f"The {n}th Fibonacci number is: {fibonacci(n)}"),
\* once fibonacci(n) has returned
DemoPrint ==
  /\ script = "demo.py"
  /\ line = 13
  /\ pc[1] = "done"
  /\ stdout' = Append(stdout, <<"The ", arg[1].n, "th Fibonacci number is: ",
                                result[1][1]>>)
  /\ line' = 0
  /\ UNCHANGED callerVars
  /\ UNCHANGED <<script, raised, input_string, reversed_string>>

\* demo1.py line 6: print(reverse_string("hello"))
Demo1Print ==
  /\ script = "demo1.py"
  /\ line = 6
  /\ stdout' = Append(stdout, demo1_reverse_string(Hello))
  /\ line' = 17
  /\ UNCHANGED callerVars
  /\ UNCHANGED <<script, raised, input_string, reversed_string>>

\* demo1.py line 17: test_reverse_string()
Demo1CallTest ==
  /\ script = "demo1.py"
  /\ line = 17
  /\ line' = 12
  /\ UNCHANGED callerVars
  /\ UNCHANGED <<script, stdout, raised, input_string, reversed_string>>

\* demo1.py lines 12-15: the argument and the expected value of each assert
test_reverse_string ==
  [l \in 12..15 |->
     CASE l = 12 -> <<Hello, Olleh>>
       [] l = 13 -> <<Empty, Empty>>
       [] l = 14 -> <<A, A>>
       [] l = 15 -> <<Abcd, Dcba>>]

\* demo1.py lines 12-15: one assert; a failed assert raises AssertionError
\* and ends the script, after the last one the test and the file end
Demo1Assert ==
  /\ script = "demo1.py"
  /\ line \in 12..15
  /\ raised = ""
  /\ IF demo1_reverse_string(test_reverse_string[line][1])
          = test_reverse_string[line][2]
       THEN /\ line' = IF line = 15 THEN 0 ELSE line + 1
            /\ UNCHANGED raised
       ELSE /\ raised' = "AssertionError"
            /\ UNCHANGED line
  /\ UNCHANGED callerVars
  /\ UNCHANGED <<script, stdout, input_string, reversed_string>>

\* sampl.py line 8: input_string = "Hello, World!"
SamplAssign ==
  /\ script = "sampl.py"
  /\ line = 8
  /\ input_string' = <<HelloWorld>>
  /\ line' = 9
  /\ UNCHANGED callerVars
  /\ UNCHANGED <<script, stdout, raised, reversed_string>>

\* sampl.py line 9: reversed_string = reverse_string(input_string)
SamplReverse ==
  /\ script = "sampl.py"
  /\ line = 9
  /\ reversed_string' = <<sampl_reverse_string(input_string[1])>>
  /\ line' = 10
  /\ UNCHANGED callerVars
  /\ UNCHANGED <<script, stdout, raised, input_string>>

\* sampl.py line 10: print(f"Original: {input_string}")
SamplPrintOriginal ==
  /\ script = "sampl.py"
  /\ line = 10
  /\ stdout' = Append(stdout, <<"Original: ", input_string[1]>>)
  /\ line' = 11
  /\ UNCHANGED callerVars
  /\ UNCHANGED <<script, raised, input_string, reversed_string>>

\* sampl.py line 11: print(f"Reversed: {reversed_string}")
SamplPrintReversed ==
  /\ script = "sampl.py"
  /\ line = 11
  /\ stdout' = Append(stdout, <<"Reversed: ", reversed_string[1]>>)
  /\ line' = 0
  /\ UNCHANGED callerVars
  /\ UNCHANGED <<script, raised, input_string, reversed_string>>

\* ---------------------------------------------------------------- Init
NoArg == [fn |-> "none"]
FibArg(n) == [fn |-> "fibonacci", n |-> n]
RevArg(fn, s) == [fn |-> fn, s |-> s]

\* every string over Alphabet of at most MaxLen characters, and the
\* literals the code passes
Strings == UNION {[1..k -> Alphabet] : k \in 0..MaxLen}
Literals == {Hello, Empty, A, Abcd, HelloWorld}

NoScript ==
  /\ script = "none"
  /\ line = 0
  /\ stdout = <<>>
  /\ raised = ""
  /\ input_string = <<>>
  /\ reversed_string = <<>>

Idle ==
  /\ stack = [p \in Callers |-> <<>>]
  /\ ret = [p \in Callers |-> 0]
  /\ result = [p \in Callers |-> <<>>]
  /\ calls = [p \in Callers |-> 0]

\* one caller calls fibonacci(n), n in -NegN..MaxN
InitFibonacci ==
  /\ \E n \in (-NegN)..MaxN :
       arg = [p \in Callers |-> IF p = 1 THEN FibArg(n) ELSE NoArg]
  /\ pc = [p \in Callers |-> IF p = 1 THEN "call" ELSE "off"]
  /\ Idle
  /\ NoScript

\* the two definitions of reverse_string are called on the same string, the
\* odd callers calling demo1.py's and the even callers sampl.py's
InitReverse ==
  /\ \E s \in Strings \cup Literals :
       arg = [p \in Callers |->
                RevArg(IF p % 2 = 1 THEN "demo1.reverse_string"
                                    ELSE "sampl.reverse_string", s)]
  /\ pc = [p \in Callers |-> "call"]
  /\ Idle
  /\ NoScript

\* every caller calls one of the functions, whatever the others call
ConcArgs ==
  {FibArg(n) : n \in (-1)..ConcN}
    \cup {RevArg(fn, Hello) : fn \in ReverseFns}

InitConcurrent ==
  /\ arg \in [Callers -> ConcArgs]
  /\ pc = [p \in Callers |-> "call"]
  /\ Idle
  /\ NoScript

\* one of the files is run as a script
InitScript ==
  /\ \E f \in {<<"demo.py", 12>>, <<"demo1.py", 6>>, <<"sampl.py", 8>>} :
       /\ script = f[1]
       /\ line = f[2]
  /\ stdout = <<>>
  /\ raised = ""
  /\ input_string = <<>>
  /\ reversed_string = <<>>
  /\ arg = [p \in Callers |-> NoArg]
  /\ pc = [p \in Callers |-> "off"]
  /\ Idle

Init == InitFibonacci \/ InitReverse \/ InitConcurrent \/ InitScript

ScriptStep ==
  \/ DemoAssign
  \/ DemoPrint
  \/ Demo1Print
  \/ Demo1CallTest
  \/ Demo1Assert
  \/ SamplAssign
  \/ SamplReverse
  \/ SamplPrintOriginal
  \/ SamplPrintReversed

Next == (\E p \in Callers : Step(p)) \/ ScriptStep

Spec == Init /\ [][Next]_vars

\* Every caller that can take a step eventually takes one, and so does the
\* script: the interpreter keeps running every thread it has started.
FairSpec == Spec /\ (\A p \in Callers : WF_vars(Step(p))) /\ WF_vars(ScriptStep)

\* ------------------------------------------------------------ reference
\* <<F(k), F(k+1)>> of the sequence F(0) = 0, F(1) = 1, F(n) = F(n-1) + F(n-2)
RECURSIVE FibPair(_)
FibPair(k) ==
  IF k = 0 THEN <<0, 1>>
  ELSE LET q == FibPair(k - 1) IN <<q[2], q[1] + q[2]>>

F(n) == FibPair(n)[1]

\* s read from its last position to its first
Reversed(s) == [i \in 1..Len(s) |-> s[Len(s) + 1 - i]]

IsFib(p) == arg[p].fn = "fibonacci"
IsRev(p) == arg[p].fn \in ReverseFns
Max(a, b) == IF a >= b THEN a ELSE b

\* --------------------------------------------------------------- claims

\* C1: fibonacci(n) is the Fibonacci number F(n) for every n >= 0: the call
\* returns F(n), with F(0) = 0, F(1) = 1, F(2) = 1 and F(10) = 55, and inside
\* every frame with n >= 2 the two recursive calls return F(n-1) and F(n-2),
\* whose sum the frame returns.
C1_FibonacciIsReference ==
  /\ F(0) = 0 /\ F(1) = 1 /\ F(2) = 1 /\ F(10) = 55
  /\ \A p \in Callers :
       (IsFib(p) /\ arg[p].n >= 0) =>
         /\ pc[p] = "done" => result[p] = <<F(arg[p].n)>>
         /\ (pc[p] = "done" /\ arg[p].n = 2) => result[p] = <<1>>
         /\ (pc[p] = "done" /\ arg[p].n = 10) => result[p] = <<55>>
         /\ (pc[p] = "running" /\ Top(p).at = "first") =>
               ret[p] = F(Top(p).n - 1)
         /\ (pc[p] = "running" /\ Top(p).at = "second") =>
               /\ Top(p).a = F(Top(p).n - 1)
               /\ ret[p] = F(Top(p).n - 2)

C1_Witness ==
  /\ pc[1] = "done"
  /\ arg[1] = FibArg(10)
  /\ result[1] = <<55>>
  /\ calls[1] > 1

\* C2: reverse_string(s) has the length of s and its character at position i
\* (from 0) is the character of s at position length(s)-1-i; "" gives "",
\* "a" gives "a", "hello" gives "olleh", "abcd" gives "dcba", and the test
\* run by demo1.py raises no AssertionError.
C2_ReverseIsReversal ==
  /\ \A p \in Callers :
       (IsRev(p) /\ pc[p] = "done") =>
         LET s == arg[p].s
             r == result[p][1]
         IN  /\ Len(r) = Len(s)
             /\ \A i \in 0..(Len(s) - 1) : r[i + 1] = s[(Len(s) - 1 - i) + 1]
             /\ s = Empty => r = Empty
             /\ s = A => r = A
             /\ s = Hello => r = Olleh
             /\ s = Abcd => r = Dcba
  /\ raised = ""
  /\ (script = "demo1.py" /\ stdout # <<>>) => stdout = <<Olleh>>

C2_Witness ==
  /\ pc[1] = "done"
  /\ arg[1] = RevArg("demo1.reverse_string", Hello)
  /\ result[1] = <<Olleh>>

\* C3: for n <= 0 fibonacci(n) returns 0 from the first guard: the call's
\* only frame is its own, no recursive call is made and the result is 0.
C3_NonPositiveReturnsZero ==
  \A p \in Callers :
    (IsFib(p) /\ arg[p].n <= 0) =>
      /\ calls[p] <= 1
      /\ Len(stack[p]) <= 1
      /\ pc[p] = "running" => (Top(p).at = "body" /\ Top(p).n = arg[p].n)
      /\ pc[p] = "done" => (result[p] = <<0>> /\ calls[p] = 1)

C3_Witness ==
  /\ pc[1] = "done"
  /\ arg[1] = FibArg(-NegN)
  /\ result[1] = <<0>>
  /\ calls[1] = 1

\* C4: reversing the result of reverse_string(s) gives s back.
C4_ReverseTwiceIsIdentity ==
  \A p \in Callers :
    (IsRev(p) /\ pc[p] = "done") =>
      reverse_string(arg[p].fn, result[p][1]) = arg[p].s

C4_Witness ==
  /\ pc[1] = "done"
  /\ arg[1] = RevArg("demo1.reverse_string", Abcd)
  /\ result[1] = <<Dcba>>
  /\ demo1_reverse_string(result[1][1]) = Abcd

\* C5: the result of reverse_string(s) has as many characters as s.
C5_ReversePreservesLength ==
  \A p \in Callers :
    (IsRev(p) /\ pc[p] = "done") => Len(result[p][1]) = Len(arg[p].s)

C5_Witness ==
  /\ pc[2] = "done"
  /\ arg[2] = RevArg("sampl.reverse_string", HelloWorld)
  /\ Len(result[2][1]) = 13

\* C6: every call of fibonacci that a caller makes eventually returns to
\* the caller with a result and an empty stack.
C6_FibonacciReturns ==
  \A p \in Callers :
    (IsFib(p) /\ pc[p] = "call") ~>
      (pc[p] = "done" /\ stack[p] = <<>> /\ result[p] # <<>>)

C6_Witness ==
  /\ pc[1] = "done"
  /\ arg[1] = FibArg(MainN)
  /\ stack[1] = <<>>
  /\ calls[1] = 177

\* C7: reverse_string leaves its argument as it was: no step changes the
\* sequence a caller passes to reverse_string nor sampl.py's input_string
\* once bound, and the result is held apart from it.
C7_InputNotMutated ==
  [][/\ \A p \in Callers : IsRev(p) => arg'[p] = arg[p]
     /\ input_string # <<>> => input_string' = input_string]_vars

C7_Witness ==
  /\ pc[1] = "done"
  /\ arg[1] = RevArg("demo1.reverse_string", HelloWorld)
  /\ result[1] = <<Reversed(HelloWorld)>>
  /\ result[1][1] # arg[1].s

\* C8: when several callers run at the same time, each call that has
\* returned has returned what it returns alone: F(n), or 0 for n <= 0, for
\* fibonacci(n) and the reversal of s for reverse_string(s).
Alone(a) ==
  IF a.fn = "fibonacci" THEN (IF a.n <= 0 THEN 0 ELSE F(a.n))
                        ELSE Reversed(a.s)

C8_ConcurrentCallsIndependent ==
  Cardinality({q \in Callers : pc[q] # "off"}) >= 2 =>
    \A p \in Callers : pc[p] = "done" => result[p] = <<Alone(arg[p])>>

C8_Witness ==
  /\ pc[2] = "done"
  /\ arg[2] = FibArg(2)
  /\ result[2] = <<1>>
  /\ pc[1] = "running"
  /\ arg[1] = FibArg(2)
  /\ Len(stack[1]) = 2
  /\ ret[1] = 1

\* C9: called on the same string, demo1.py's reverse_string and sampl.py's
\* reverse_string return the same sequence.
C9_DefinitionsAgree ==
  \A p, q \in Callers :
    (/\ pc[p] = "done" /\ arg[p].fn = "demo1.reverse_string"
     /\ pc[q] = "done" /\ arg[q].fn = "sampl.reverse_string"
     /\ arg[p].s = arg[q].s) => result[p] = result[q]

C9_Witness ==
  /\ pc[1] = "done" /\ arg[1] = RevArg("demo1.reverse_string", Hello)
  /\ pc[2] = "done" /\ arg[2] = RevArg("sampl.reverse_string", Hello)
  /\ result[1] = result[2]

\* C10: in a call fibonacci(n) with n >= 0 every recursive call has an
\* argument k with 0 <= k < n, so the first guard is reached with 0 only,
\* and the stack never holds more than max(n, 1) frames.
C10_ArgumentsAndDepthBounded ==
  \A p \in Callers :
    (IsFib(p) /\ arg[p].n >= 0) =>
      /\ Len(stack[p]) <= Max(arg[p].n, 1)
      /\ \A i \in 1..Len(stack[p]) :
           /\ i = 1 => stack[p][i].n = arg[p].n
           /\ i > 1 => (0 <= stack[p][i].n /\ stack[p][i].n < arg[p].n)
           /\ Branch(stack[p][i].n) = "zero" => stack[p][i].n = 0

C10_Witness ==
  /\ arg[1] = FibArg(MainN)
  /\ Len(stack[1]) = MainN
  /\ Top(1).n = 0

====
